---- MODULE Spec2Model ----
(***************************************************************************)
(* UE project line statistics (src/UELINESTATISTICS/src/main.rs).          *)
(*                                                                         *)
(* A name (one path component) is a tuple of tokens: a token is either the *)
(* dot "." or a maximal dot-free run of characters, so "a.cpp" is          *)
(* <<"a", ".", "cpp">> and ".vs" is <<".", "vs">>.  A path is a tuple of   *)
(* names.  A file content is a tuple of bytes drawn from Chars; BAD is a   *)
(* byte that is not valid UTF-8.                                           *)
(*                                                                         *)
(* update runs on one thread.  A frame without a pick is one step; a frame *)
(* with a pick is the steps ClickPick .. Return, one per iteration of the  *)
(* loops of stat_ue_code, and pc is the position in it: "walk" at the head *)
(* of the loop over the entries, "read" at the head of the loop over the   *)
(* lines, "drop" where flatten() discards an Err.  The walk order is       *)
(* unspecified: any pending entry may come next.                           *)
(***************************************************************************)
EXTENDS Integers, Sequences, FiniteSets, TLC

VARIABLES disk, root_dir, result, font_inited, view, pc, root, res, pending, rest, ioerr

vars == <<disk, root_dir, result, font_inited, view, pc, root, res, pending, rest, ioerr>>

(* ------------------------------ bounds -------------------------------- *)
MaxLen == 4      \* longest content of the file of a content disk
MaxDepth == 2    \* deepest directory of a path disk
MaxFiles == 2    \* most files on a tree disk

(* ----------------------------- constants ------------------------------ *)
EXCLUDE_DIR == {<<"Intermediate">>, <<"Binaries">>, <<"Saved">>, <<".", "vs">>}

INCLUDE_EXT == {"h", "cpp", "inl"}

None == [some |-> FALSE]

Some(v) == [some |-> TRUE, val |-> v]

StatResult_default == [files |-> 0, total_lines |-> 0, code_lines |-> 0]

LF == "\n"

BAD == "0xFF"

Whitespace == {" "}

(* ------------------------- line classification ------------------------ *)
RECURSIVE trim_start(_)
trim_start(s) ==
    IF s # <<>> /\ Head(s) \in Whitespace THEN trim_start(Tail(s)) ELSE s

RECURSIVE trim_end(_)
trim_end(s) ==
    IF s # <<>> /\ s[Len(s)] \in Whitespace
    THEN trim_end(SubSeq(s, 1, Len(s) - 1))
    ELSE s

trim(s) == trim_end(trim_start(s))

starts_with(s, p) == Len(s) >= Len(p) /\ SubSeq(s, 1, Len(p)) = p

is_comment_or_empty(line) ==
    LET s == trim(line)
    IN  \/ s = <<>>
        \/ starts_with(s, <<"/", "/">>)
        \/ starts_with(s, <<"/", "*">>)
        \/ starts_with(s, <<"*">>)

(* ------------------------------ paths --------------------------------- *)
\* faulty variant: only the parent directory of the file is looked at
should_skip_parent_only(path) ==
    /\ Len(path) >= 2
    /\ \/ path[Len(path) - 1] \in EXCLUDE_DIR
       \/ /\ Len(path) >= 3
          /\ path[Len(path) - 2] = <<"Plugins">>
          /\ path[Len(path) - 1] \in {<<"Intermediate">>, <<"ThirdParty">>}

should_skip(path) ==
    IF \E i \in DOMAIN path : path[i] \in EXCLUDE_DIR
    THEN TRUE
    ELSE \E i \in DOMAIN path :
            /\ path[i] = <<"Plugins">>
            /\ i + 1 \in DOMAIN path
            /\ path[i + 1] \in {<<"Intermediate">>, <<"ThirdParty">>}

\* Path::extension: the part of the file name after its last dot; none when
\* the name has no dot or only a leading one.
extension(path) ==
    LET name == path[Len(path)]
        dots == {i \in DOMAIN name : name[i] = "."}
        last == CHOOSE i \in dots : \A j \in dots : j <= i
    IN  IF dots = {} THEN None
        ELSE IF last = 1 THEN None
        ELSE IF last = Len(name) THEN Some("")
        ELSE Some(name[last + 1])

to_ascii_lowercase(e) ==
    IF e = "H" THEN "h" ELSE IF e = "CPP" THEN "cpp" ELSE IF e = "INL" THEN "inl" ELSE e

\* faulty variant: the extension is compared without regard to case
should_count_ignore_case(path) ==
    LET e == extension(path)
    IN  IF e.some THEN to_ascii_lowercase(e.val) \in INCLUDE_EXT ELSE FALSE

should_count(path) ==
    LET e == extension(path)
    IN  IF e.some THEN e.val \in INCLUDE_EXT ELSE FALSE

(* --------------------------- reading lines ---------------------------- *)
\* One call of Lines::next on a non-empty remainder: the bytes up to and
\* including the first line break (all of them when there is none) are
\* consumed; the call is Ok with the line, its break stripped, when they are
\* valid UTF-8 and Err otherwise.
read_line(buf) ==
    LET brk == {i \in DOMAIN buf : buf[i] = LF}
        n   == IF brk = {} THEN Len(buf) ELSE CHOOSE i \in brk : \A j \in brk : i <= j
        raw == SubSeq(buf, 1, n)
    IN  [ok   |-> \A i \in DOMAIN raw : raw[i] # BAD,
         line |-> IF brk = {} THEN raw ELSE SubSeq(raw, 1, n - 1),
         rest |-> SubSeq(buf, n + 1, Len(buf))]

\* faulty variant: an empty line is not counted at all
count_line_skip_empty(r, line) ==
    IF line = <<>> THEN r
    ELSE [r EXCEPT !.total_lines = @ + 1,
                   !.code_lines = IF ~is_comment_or_empty(line) THEN @ + 1 ELSE @]

\* faulty variant: the two counters are exchanged
count_line_exchanged(r, line) ==
    [r EXCEPT !.code_lines = @ + 1,
              !.total_lines = IF ~is_comment_or_empty(line) THEN @ + 1 ELSE @]

count_line(r, line) ==
    [r EXCEPT !.total_lines = @ + 1,
              !.code_lines = IF ~is_comment_or_empty(line) THEN @ + 1 ELSE @]

(* ------------------------------ the disk ------------------------------ *)
\* A disk is [dirs, files, unreadable]: the directories, the regular files
\* [path, content, mode] and the entries whose read fails during a walk.
\* mode is "ok", "noopen" (File::open fails) or "ioerr" (every read fails).
FileRec(path, content, mode) == [path |-> path, content |-> content, mode |-> mode]

Prefixes(p) == {SubSeq(p, 1, k) : k \in 1..Len(p)}

IsPrefix(p, q) == Len(p) <= Len(q) /\ SubSeq(q, 1, Len(p)) = p

Chars == {LF, " ", "/", "*", "x", BAD}

Contents == UNION {[1..n -> Chars] : n \in 0..MaxLen}

Proj == <<"proj">>

ACpp == <<"a", ".", "cpp">>

\* content disks: one source file, every content up to MaxLen bytes
ContentDisks ==
    {[dirs |-> {<<Proj>>},
      files |-> {FileRec(<<Proj, ACpp>>, c, "ok")},
      unreadable |-> {}] : c \in Contents}

DirNames == EXCLUDE_DIR \cup {<<"Plugins">>, <<"ThirdParty">>, <<"Source">>}

DirPaths == UNION {[1..n -> DirNames] : n \in 1..MaxDepth}

FileNames ==
    {<<"a", ".", "h">>, ACpp, <<"a", ".", "inl">>, <<"a", ".", "H">>,
     <<"a", ".", "CPP">>, <<"a", ".", "txt">>, <<"a">>, <<"h">>, <<".", "h">>,
     <<"a", ".">>, <<"a", ".", "h", ".", "txt">>, <<"a", ".", "txt", ".", "h">>,
     <<"Saved", ".", "h">>, <<"Saved">>, <<"ThirdParty">>}

OneLine == <<"x", LF>>

\* path disks: one one-line file, every directory path up to MaxDepth names
PathDisks ==
    {[dirs |-> Prefixes(d),
      files |-> {FileRec(Append(d, f), OneLine, "ok")},
      unreadable |-> {}] : d \in DirPaths, f \in FileNames}

\* 10 lines: 3 blank, 2 comment-prefixed, 5 code
TenLines ==
    <<"x", LF>> \o <<LF>> \o <<"/", "/", "x", LF>> \o <<"x", "/", LF>>
    \o <<" ", LF>> \o <<" ", "*", "x", LF>> \o <<"x", LF>> \o <<LF>>
    \o <<"x", " ", LF>> \o <<"x", LF>>

Source == <<Proj, <<"Source">>>>

TreeDirs == {<<Proj>>, Source, <<Proj, <<"Saved">>>>, <<Proj, <<"Empty">>>>}

TreePaths ==
    {Append(Source, ACpp), <<Proj, <<"b", ".", "h">>>>,
     <<Proj, <<"Saved">>, <<"c", ".", "cpp">>>>, <<Proj, <<"d", ".", "txt">>>>}

TreeAttrs == {OneLine, TenLines} \X {"ok", "noopen", "ioerr"}

TreeFileSets ==
    UNION {{{FileRec(p, a[p][1], a[p][2]) : p \in ps} : a \in [ps -> TreeAttrs]} :
              ps \in {qs \in SUBSET TreePaths : Cardinality(qs) <= MaxFiles}}

\* tree disks: up to MaxFiles files in a small project, at most one
\* unreadable entry
TreeDisks ==
    {[dirs |-> TreeDirs, files |-> fs, unreadable |-> u] :
        fs \in TreeFileSets,
        u \in {{}, {Source}, {Append(Source, ACpp)}}}

Disks == ContentDisks \cup PathDisks \cup TreeDisks

FilePaths(d) == {f.path : f \in d.files}

FileAt(d, p) == CHOOSE f \in d.files : f.path = p

\* the entries read_dir yields for directory p
Children(d, p) ==
    {q \in d.dirs \cup FilePaths(d) : Len(q) = Len(p) + 1 /\ IsPrefix(p, q)}

(* ------------------------------ the app ------------------------------- *)
Init ==
    /\ disk \in Disks
    /\ root_dir = None
    /\ result = StatResult_default
    /\ font_inited = FALSE
    /\ view = "none"
    /\ pc = "idle"
    /\ root = None
    /\ res = StatResult_default
    /\ pending = {}
    /\ rest = <<>>
    /\ ioerr = FALSE

\* the result display at the end of update
Render ==
    view' = IF root_dir'.some THEN "result" ELSE "placeholder"

scan_vars == <<root, res, pending, rest, ioerr>>

\* faulty variant: the rules are applied to the path below the chosen root only
loop_filter_below_root(path) ==
    LET rel == SubSeq(path, Len(root.val) + 1, Len(path))
    IN  should_skip(rel) \/ ~should_count(path)

\* the test that makes the loop of stat_ue_code continue
loop_filter(path) == should_skip(path) \/ ~should_count(path)

\* update, the button not clicked
Frame ==
    /\ pc = "idle"
    /\ font_inited' = TRUE
    /\ UNCHANGED <<disk, root_dir, result, pc, scan_vars>>
    /\ Render

\* update, the button clicked and the folder picker cancelled
ClickCancel ==
    /\ pc = "idle"
    /\ font_inited' = TRUE
    /\ UNCHANGED <<disk, root_dir, result, pc, scan_vars>>
    /\ Render

\* faulty variant: the scan goes on counting from the stored result
ClickPick_accumulate ==
    /\ pc = "idle"
    /\ \E dir \in disk.dirs :
          /\ root' = Some(dir)
          /\ pending' = {dir}
    /\ res' = result
    /\ font_inited' = TRUE
    /\ pc' = "walk"
    /\ UNCHANGED <<disk, root_dir, result, view, rest, ioerr>>

\* update, the button clicked and a folder picked: stat_ue_code starts
ClickPick ==
    /\ pc = "idle"
    /\ \E dir \in disk.dirs :
          /\ root' = Some(dir)
          /\ pending' = {dir}
    /\ res' = StatResult_default
    /\ font_inited' = TRUE
    /\ pc' = "walk"
    /\ UNCHANGED <<disk, root_dir, result, view, rest, ioerr>>

\* the walk yields an error for an entry: filter_map(Result::ok) drops it
WalkErr ==
    /\ pc = "walk"
    /\ \E e \in pending \cap disk.unreadable : pending' = pending \ {e}
    /\ UNCHANGED <<disk, root_dir, result, font_inited, view, pc, root, res, rest, ioerr>>

\* faulty variant: only the entries of the root are walked
WalkDirectory_depth1 ==
    /\ pc = "walk"
    /\ \E e \in (pending \cap disk.dirs) \ disk.unreadable :
          pending' = (pending \ {e}) \cup
                        (IF e = root.val THEN Children(disk, e) ELSE {})
    /\ UNCHANGED <<disk, root_dir, result, font_inited, view, pc, root, res, rest, ioerr>>

\* the walk yields a directory: filtered out, its entries are walked
WalkDirectory ==
    /\ pc = "walk"
    /\ \E e \in (pending \cap disk.dirs) \ disk.unreadable :
          pending' = (pending \ {e}) \cup Children(disk, e)
    /\ UNCHANGED <<disk, root_dir, result, font_inited, view, pc, root, res, rest, ioerr>>

\* a file that should_skip or not should_count: continue
FileSkip ==
    /\ pc = "walk"
    /\ \E e \in (pending \cap FilePaths(disk)) \ disk.unreadable :
          /\ loop_filter(e)
          /\ pending' = pending \ {e}
    /\ UNCHANGED <<disk, root_dir, result, font_inited, view, pc, root, res, rest, ioerr>>

\* faulty variant: the file is counted before it is opened
OpenErr_counted ==
    /\ pc = "walk"
    /\ \E e \in (pending \cap FilePaths(disk)) \ disk.unreadable :
          /\ ~loop_filter(e)
          /\ FileAt(disk, e).mode = "noopen"
          /\ pending' = pending \ {e}
    /\ res' = [res EXCEPT !.files = @ + 1]
    /\ UNCHANGED <<disk, root_dir, result, font_inited, view, pc, root, rest, ioerr>>

\* File::open fails: nothing is counted
OpenErr ==
    /\ pc = "walk"
    /\ \E e \in (pending \cap FilePaths(disk)) \ disk.unreadable :
          /\ ~loop_filter(e)
          /\ FileAt(disk, e).mode = "noopen"
          /\ pending' = pending \ {e}
    /\ UNCHANGED <<disk, root_dir, result, font_inited, view, pc, root, res, rest, ioerr>>

\* File::open succeeds: the file is counted and its lines are read
OpenOk ==
    /\ pc = "walk"
    /\ \E e \in (pending \cap FilePaths(disk)) \ disk.unreadable :
          /\ ~loop_filter(e)
          /\ FileAt(disk, e).mode # "noopen"
          /\ pending' = pending \ {e}
          /\ rest' = FileAt(disk, e).content
          /\ ioerr' = (FileAt(disk, e).mode = "ioerr")
    /\ res' = [res EXCEPT !.files = @ + 1]
    /\ pc' = "read"
    /\ UNCHANGED <<disk, root_dir, result, font_inited, view, root>>

\* lines() yields Ok(line)
LineOk ==
    /\ pc = "read"
    /\ ~ioerr
    /\ rest # <<>>
    /\ read_line(rest).ok
    /\ res' = count_line(res, read_line(rest).line)
    /\ rest' = read_line(rest).rest
    /\ UNCHANGED <<disk, root_dir, result, font_inited, view, pc, root, pending, ioerr>>

\* lines() yields Err for a line that is not UTF-8: its bytes are consumed
LineInvalid ==
    /\ pc = "read"
    /\ ~ioerr
    /\ rest # <<>>
    /\ ~read_line(rest).ok
    /\ rest' = read_line(rest).rest
    /\ pc' = "drop"
    /\ UNCHANGED <<disk, root_dir, result, font_inited, view, root, res, pending, ioerr>>

\* lines() yields Err for a failed read: nothing is consumed
LineIoErr ==
    /\ pc = "read"
    /\ ioerr
    /\ pc' = "drop"
    /\ UNCHANGED <<disk, root_dir, result, font_inited, view, root, res, pending, rest, ioerr>>

\* flatten() drops the Err and asks lines() for the next item
FlattenErr ==
    /\ pc = "drop"
    /\ pc' = "read"
    /\ UNCHANGED <<disk, root_dir, result, font_inited, view, root, res, pending, rest, ioerr>>

\* lines() yields None at the end of the file
Eof ==
    /\ pc = "read"
    /\ ~ioerr
    /\ rest = <<>>
    /\ pc' = "walk"
    /\ UNCHANGED <<disk, root_dir, result, font_inited, view, root, res, pending, rest, ioerr>>

\* the walk is over: stat_ue_code returns, update stores result and root_dir
\* and draws the result
Return ==
    /\ pc = "walk"
    /\ pending = {}
    /\ result' = res
    /\ root_dir' = root
    /\ Render
    /\ pc' = "idle"
    /\ root' = None
    /\ res' = StatResult_default
    /\ UNCHANGED <<disk, font_inited, pending, rest, ioerr>>

Next ==
    \/ Frame
    \/ ClickCancel
    \/ ClickPick
    \/ WalkErr
    \/ WalkDirectory
    \/ FileSkip
    \/ OpenErr
    \/ OpenOk
    \/ LineOk
    \/ LineInvalid
    \/ LineIoErr
    \/ FlattenErr
    \/ Eof
    \/ Return

Spec == Init /\ [][Next]_vars

\* update runs on one thread: a started scan keeps taking its next step
FairSpec ==
    /\ Spec
    /\ WF_vars(WalkErr) /\ WF_vars(WalkDirectory) /\ WF_vars(FileSkip)
    /\ WF_vars(OpenErr) /\ WF_vars(OpenOk) /\ WF_vars(LineOk)
    /\ WF_vars(LineInvalid) /\ WF_vars(LineIoErr) /\ WF_vars(FlattenErr)
    /\ WF_vars(Eof)
    /\ WF_vars(Return)

(* ----------------- what a finished scan is compared to ---------------- *)
Done == pc = "idle" /\ root_dir.some

\* the files a walk from r yields: below r with no unreadable entry on the way
Under(d, r) ==
    {f \in d.files :
        /\ IsPrefix(r, f.path)
        /\ \A k \in Len(r)..Len(f.path) : SubSeq(f.path, 1, k) \notin d.unreadable}

Counted(d, r) ==
    {f \in Under(d, r) :
        ~should_skip(f.path) /\ should_count(f.path) /\ f.mode # "noopen"}

NumLineBreaks(c) == Cardinality({i \in DOMAIN c : c[i] = LF})

Unterminated(c) == IF c # <<>> /\ c[Len(c)] # LF THEN 1 ELSE 0

\* where the lines of c start, and the text of the line that starts at i
LineStarts(c) == {i \in DOMAIN c : i = 1 \/ c[i - 1] = LF}

LineText(c, i) ==
    LET brk == {j \in i..Len(c) : c[j] = LF}
    IN  IF brk = {} THEN SubSeq(c, i, Len(c))
        ELSE SubSeq(c, i, (CHOOSE j \in brk : \A k \in brk : j <= k) - 1)

Undecodable(t) == \E k \in DOMAIN t : t[k] = BAD

FailedLines(c) == Cardinality({i \in LineStarts(c) : Undecodable(LineText(c, i))})

\* the first character that is not whitespace exists and opens none of the
\* markers "//", "/*", "*"
IsCodeText(t) ==
    \E k \in DOMAIN t :
        /\ t[k] \notin Whitespace
        /\ \A j \in 1..(k - 1) : t[j] \in Whitespace
        /\ t[k] # "*"
        /\ ~(t[k] = "/" /\ k + 1 \in DOMAIN t /\ t[k + 1] \in {"/", "*"})

CodeLinesOf(c) == Cardinality({i \in LineStarts(c) : IsCodeText(LineText(c, i))})

CodeLinesRead(c) ==
    Cardinality({i \in LineStarts(c) :
                    IsCodeText(LineText(c, i)) /\ ~Undecodable(LineText(c, i))})

LinesRead(c) == NumLineBreaks(c) + Unterminated(c) - FailedLines(c)

RECURSIVE SumOver(_, _)
SumOver(S, w) ==
    IF S = {} THEN 0
    ELSE LET x == CHOOSE y \in S : TRUE IN w[x] + SumOver(S \ {x}, w)

\* the result of counting every file of S
Tally(S) ==
    [files |-> Cardinality(S),
     total_lines |-> SumOver(S, [f \in S |-> LinesRead(f.content)]),
     code_lines |-> SumOver(S, [f \in S |-> CodeLinesRead(f.content)])]

FileName(p) == p[Len(p)]

HasSourceExt(p) ==
    LET n == FileName(p)
    IN  Len(n) >= 3 /\ n[Len(n) - 1] = "." /\ n[Len(n)] \in {"h", "cpp", "inl"}

ExcludedNames == {<<"Intermediate">>, <<"Binaries">>, <<"Saved">>, <<".", "vs">>}

PluginsPair(p, i, names) ==
    p[i] = <<"Plugins">> /\ i + 1 \in DOMAIN p /\ p[i + 1] \in names

\* the exclusion rule in the words of C1
Excluded(p) ==
    \/ \E i \in 1..(Len(p) - 1) : p[i] \in ExcludedNames
    \/ \E i \in DOMAIN p : PluginsPair(p, i, {<<"Intermediate">>, <<"ThirdParty">>})

(* -------------------------------- C1 ---------------------------------- *)
OnlyExcludedChildren(d, r) ==
    /\ Children(d, r) # {}
    /\ \A c \in Children(d, r) : c \in d.dirs /\ c[Len(c)] \in ExcludedNames

\* C1: a finished scan holds exactly the counts of the counted files whose
\* path is not excluded (no directory component among the four excluded
\* names, no "Plugins" followed by "Intermediate" or "ThirdParty"), and it is
\* {0,0,0} for a root whose only children are excluded-named directories.
C1_ExcludedContributeNothing ==
    Done =>
        /\ result = Tally({f \in Counted(disk, root_dir.val) : ~Excluded(f.path)})
        /\ OnlyExcludedChildren(disk, root_dir.val) => result = StatResult_default

C1_Witness ==
    /\ Done
    /\ OnlyExcludedChildren(disk, root_dir.val)
    /\ \E f \in Under(disk, root_dir.val) : HasSourceExt(f.path) /\ f.mode = "ok"
    /\ result = StatResult_default

(* -------------------------------- C2 ---------------------------------- *)
\* C2: a finished scan holds exactly the counts of the counted files whose
\* name ends in ".h", ".cpp" or ".inl" in exactly that case; every other
\* file adds nothing.
C2_OtherExtensionsNeverCounted ==
    Done => result = Tally({f \in Counted(disk, root_dir.val) : HasSourceExt(f.path)})

C2_Witness ==
    /\ Done
    /\ result.files = 0
    /\ \E f \in Under(disk, root_dir.val) :
          /\ FileName(f.path) \in {<<"a", ".", "H">>, <<"a">>}
          /\ ~Excluded(f.path)
          /\ f.mode = "ok"

(* -------------------------------- C3 ---------------------------------- *)
\* C3 as stated: total_lines of a finished scan is the number of line breaks
\* in the counted files.
C3_TotalIsLineBreaks ==
    Done =>
        result.total_lines =
            LET S == Counted(disk, root_dir.val)
            IN  SumOver(S, [f \in S |-> NumLineBreaks(f.content)])

\* C3 amended: total_lines of a finished scan is, summed over the counted
\* files, the number of line breaks, plus one for a non-empty content that
\* does not end in a line break, less the lines whose read fails.
C3_TotalIsLinesRead ==
    Done =>
        result.total_lines =
            LET S == Counted(disk, root_dir.val)
            IN  SumOver(S, [f \in S |->
                    NumLineBreaks(f.content) + Unterminated(f.content)
                        - FailedLines(f.content)])

C3_Witness ==
    /\ Done
    /\ \E f \in Counted(disk, root_dir.val) :
          /\ Unterminated(f.content) = 1
          /\ NumLineBreaks(f.content) >= 1
          /\ FailedLines(f.content) = 0
    /\ result.total_lines >= 2

(* -------------------------------- C4 ---------------------------------- *)
\* C4: code_lines of a finished scan is, summed over the counted files, the
\* number of lines that trimmed are non-empty and start with none of "//",
\* "/*", "*"; the ten-line file alone yields files=1, total_lines=10,
\* code_lines=5.
C4_CodeLinesAreUnmarkedLines ==
    Done =>
        LET S == Counted(disk, root_dir.val)
        IN  /\ result.code_lines = SumOver(S, [f \in S |-> CodeLinesOf(f.content)])
            /\ (\E f \in S : S = {f} /\ f.content = TenLines) =>
                  result = [files |-> 1, total_lines |-> 10, code_lines |-> 5]

(* -------------------------------- C5 ---------------------------------- *)
\* C5: code_lines <= total_lines in the result being built and in the
\* result the app holds, in every state.
C5_CodeAtMostTotal ==
    /\ res.code_lines <= res.total_lines
    /\ result.code_lines <= result.total_lines

C5_Witness ==
    /\ pc = "read"
    /\ res.code_lines >= 1
    /\ res.code_lines < res.total_lines
    /\ result.code_lines >= 1
    /\ result.code_lines < result.total_lines

(* -------------------------------- C6 ---------------------------------- *)
\* C6: files of a finished scan is the number of files the walk reaches
\* under the root that are not skipped, have a counted extension and open;
\* the scan of an empty root is {0,0,0}.
C6_FilesIsEligibleCount ==
    Done =>
        /\ result.files = Cardinality(Counted(disk, root_dir.val))
        /\ Children(disk, root_dir.val) = {} => result = StatResult_default

C6_Witness ==
    /\ Done
    /\ result.files = 2
    /\ \E f \in Counted(disk, root_dir.val) : Len(f.path) >= Len(root_dir.val) + 2

(* -------------------------------- C7 ---------------------------------- *)
Openable(d) == [d EXCEPT !.files = {f \in d.files : f.mode # "noopen"}]

Readable(d) ==
    [d EXCEPT !.files = {f \in d.files :
                            \A k \in DOMAIN f.path : SubSeq(f.path, 1, k) \notin d.unreadable}]

\* C7: a finished scan equals the scan of the same tree without the files
\* that do not open and without the entries that cannot be read.
C7_FailuresAreSkipped ==
    Done =>
        result =
            Tally({f \in Readable(Openable(disk)).files :
                      /\ IsPrefix(root_dir.val, f.path)
                      /\ ~should_skip(f.path)
                      /\ should_count(f.path)})

C7_Witness ==
    /\ Done
    /\ result.files >= 1
    /\ \E f \in Under(disk, root_dir.val) :
          ~should_skip(f.path) /\ should_count(f.path) /\ f.mode = "noopen"

(* -------------------------------- C8 ---------------------------------- *)
C8_State ==
    /\ view = "placeholder" => ~root_dir.some
    /\ view = "result" => root_dir.some
    /\ ~root_dir.some => result = StatResult_default
    /\ Done => result = Tally(Counted(disk, root_dir.val))

C8_Step ==
    /\ pc = "idle" /\ pc' = "idle" => UNCHANGED <<root_dir, result>>
    /\ pc # "idle" /\ pc' # "idle" => UNCHANGED <<root_dir, result>>
    /\ pc # "idle" /\ pc' = "idle" => root.some /\ root_dir' = root

\* C8: the stored result is always the scan of the stored folder alone
\* (nothing accumulates); a frame without a pick leaves root_dir and result
\* unchanged; a pick stores the picked folder; the placeholder is drawn
\* exactly while root_dir is None, when the result is {0,0,0}.
C8_Presenter == [](C8_State) /\ [][C8_Step]_vars

C8_Witness ==
    /\ Done
    /\ view = "result"
    /\ result.files = 1
    /\ Cardinality(Counted(disk, <<Proj>>)) = 2

(* -------------------------------- C9 ---------------------------------- *)
\* C9: every scan that starts returns.
C9_ScanReturns == (pc # "idle") ~> (pc = "idle")

(* -------------------------------- C10 --------------------------------- *)
RootExcluded(r) ==
    \E i \in DOMAIN r :
        r[i] \in ExcludedNames \/ PluginsPair(r, i, {<<"ThirdParty">>})

\* C10: the scan of a root whose own path has an excluded component is
\* {0,0,0}; a source file below a "ThirdParty" directory that is not right
\* under "Plugins", with no other exclusion, is counted.
C10_RootComponentsCount ==
    Done =>
        /\ RootExcluded(root_dir.val) => result = StatResult_default
        /\ \A f \in Under(disk, root_dir.val) :
              (/\ \E i \in 1..(Len(f.path) - 1) : f.path[i] = <<"ThirdParty">>
               /\ ~Excluded(f.path)
               /\ HasSourceExt(f.path)
               /\ f.mode = "ok") => result.files >= 1

C10_Witness ==
    /\ Done
    /\ RootExcluded(root_dir.val)
    /\ result = StatResult_default
    /\ \E f \in Under(disk, root_dir.val) :
          /\ HasSourceExt(f.path)
          /\ f.mode = "ok"
          /\ \A i \in (Len(root_dir.val) + 1)..Len(f.path) : f.path[i] \notin ExcludedNames

====
